---- MODULE Spec2Model ----
(***************************************************************************)
(* Model of the Foundation Model + Digital Twin demo: the full script      *)
(* (streamlit_app.py) and the simplified script (streamlit_app_simple.py). *)
(*                                                                         *)
(* Units.  Floats are fixed-point integers:                                *)
(*   survival before rounding   1/240 month  (age_effect = -0.25*(a-65)/12 *)
(*                                            is then the integer -5*(a-65))*)
(*   survival_months (rounded)  tenths of a month                          *)
(*   resistance before rounding 1/10000                                    *)
(*   resistance_prob_true       thousandths                                 *)
(*   predicted resistance prob. hundredths                                  *)
(*   predicted survival         tenths of a month                          *)
(* Strings that the code formats are sequences of one-character strings.   *)
(***************************************************************************)
EXTENDS Integers, Sequences, FiniteSets, TLC

VARIABLES
    call,           \* pure-function harness: the last call, its inputs and result
    variant,        \* which script the server process runs: "full" or "simple"
    tape,           \* which output table the pseudo-random generator has
    hashSalt,       \* the interpreter's per-process string-hash salt
    rng,            \* the process-global generator (np.random / random): seed, position
    cache,          \* st.cache_data memo of generate_demo_data and train_models
    session_state,  \* st.session_state of each session: key -> value
    widget,         \* each session's dropdown state (selected position, 0 = not rendered)
    page,           \* what each session's last script run rendered
    audit,          \* history: generator results, reports shown, per-session counters
    thread          \* each session's script thread: its position and its locals

vars ==
    <<call, variant, tape, hashSalt, rng, cache, session_state, widget, page, audit,
      thread>>

mainVars ==
    <<variant, tape, hashSalt, rng, cache, session_state, widget, page, audit, thread>>

(***************************************************************************)
(* Bounds of the model.                                                    *)
(***************************************************************************)
\* largest predicted survival (tenths of a month) the classifier is fed
MaxPredSurvival == 320
\* largest patient count handed to the id generator
MaxCount == 200
\* largest magnitude of the age draw, in tenths of a year
MaxAgeDraw == 1500
\* largest magnitude of the survival noise draw, in months
MaxNoiseMonths == 45
\* largest magnitude of the resistance noise draw, in steps of 0.0005
MaxResistNoiseSteps == 1200

(***************************************************************************)
(* Arithmetic helpers.                                                     *)
(***************************************************************************)
\* F applied to the value of e, the way a Python statement binds a name: e is
\* computed once, before F uses it
With(e, F(_)) == CHOOSE out \in {F(v) : v \in {e}} : TRUE

Max(a, b) == IF a >= b THEN a ELSE b

Min(a, b) == IF a <= b THEN a ELSE b

\* np.clip(x, lo, hi)
Clip(x, lo, hi) == Min(Max(x, lo), hi)

\* int(x / d): truncation toward zero
Trunc(x, d) == IF x >= 0 THEN x \div d ELSE -((-x) \div d)

\* round(x / d) to the nearest integer, ties to even (round / np.round)
RoundHalfEven(x, d) ==
    LET q == x \div d
        r == x % d
    IN  IF 2 * r < d THEN q
        ELSE IF 2 * r > d THEN q + 1
        ELSE IF q % 2 = 0 THEN q ELSE q + 1

(***************************************************************************)
(* Digital Twin Reporter: the two threshold classifiers.                   *)
(***************************************************************************)
risk_category_low_threshold_mutant(pred_survival) ==
    IF pred_survival <= 15 * 10 THEN "HIGH RISK"
    ELSE IF pred_survival < 30 * 10 THEN "MEDIUM RISK"
    ELSE "LOW RISK"

\* streamlit_app.py: if pred_survival < 15 / elif pred_survival < 30 / else
risk_category_full(pred_survival) ==
    IF pred_survival < 15 * 10 THEN "HIGH RISK"
    ELSE IF pred_survival < 30 * 10 THEN "MEDIUM RISK"
    ELSE "LOW RISK"

\* streamlit_app_simple.py: the same chain
risk_category_simple(pred_survival) ==
    IF pred_survival < 15 * 10 THEN "HIGH RISK"
    ELSE IF pred_survival < 30 * 10 THEN "MEDIUM RISK"
    ELSE "LOW RISK"

treatment_rec_inclusive_mutant(pred_resistance_prob) ==
    IF pred_resistance_prob >= 70 THEN "alternative"
    ELSE IF pred_resistance_prob >= 40 THEN "monitoring"
    ELSE "standard"

\* streamlit_app.py: if p > 0.7 / elif p > 0.4 / else
treatment_rec_full(pred_resistance_prob) ==
    IF pred_resistance_prob > 70 THEN "alternative"
    ELSE IF pred_resistance_prob > 40 THEN "monitoring"
    ELSE "standard"

\* streamlit_app_simple.py: the same chain
treatment_rec_simple(pred_resistance_prob) ==
    IF pred_resistance_prob > 70 THEN "alternative"
    ELSE IF pred_resistance_prob > 40 THEN "monitoring"
    ELSE "standard"

(***************************************************************************)
(* Patient identifiers: f"OV{i:03d}".                                      *)
(***************************************************************************)
DigitChar == <<"0", "1", "2", "3", "4", "5", "6", "7", "8", "9">>

RECURSIVE Digits(_)
\* the decimal digits of i >= 0, most significant first
Digits(i) ==
    IF i < 10 THEN <<DigitChar[i + 1]>>
    ELSE Digits(i \div 10) \o <<DigitChar[(i % 10) + 1]>>

RECURSIVE ZeroPad(_, _)
\* the format spec 0<width>d: zeros on the left up to width, never truncating
ZeroPad(ds, width) ==
    IF Len(ds) >= width THEN ds ELSE ZeroPad(<<"0">> \o ds, width)

patient_id_shared_mutant(i) == <<"O", "V", "0", "0", "1">>

patient_id_width2_mutant(i) == <<"O", "V">> \o ZeroPad(Digits(i), 2)

\* f"OV{i:03d}"
patient_id(i) == <<"O", "V">> \o ZeroPad(Digits(i), 3)

\* streamlit_app.py: [f"OV{i:03d}" for i in range(1, n_patients + 1)]
ids_full(n_patients) == [i \in 1..n_patients |-> patient_id(i)]

\* streamlit_app_simple.py: for i in range(1, 201): 'id': f"OV{i:03d}"
ids_simple == [i \in 1..(201 - 1) |-> patient_id(i)]

(***************************************************************************)
(* Cohort generator: the per-patient formulas of both scripts.             *)
(***************************************************************************)
age_no_clip_mutant(x) == Trunc(x, 10)

\* np.clip(np.random.normal(65, 12, n).astype(int), 35, 85); x = the draw, in tenths
age_full(x) == Clip(Trunc(x, 10), 35, 85)

\* max(35, min(85, int(random.gauss(65, 12)))); x = the draw, in tenths
age_simple(x) == Max(35, Min(85, Trunc(x, 10)))

\* 28 if HGSOC, 20 if CCOC, else 24 (months)
base_survival(subtype) ==
    IF subtype = "HGSOC" THEN 28 ELSE IF subtype = "CCOC" THEN 20 ELSE 24

\* -0.25 * (age - 65) / 12, in 1/240 month
age_effect(age) == -5 * (age - 65)

\* -6 if stage IV else 0 (months)
stage_effect(stage) == IF stage = "IV" THEN -6 ELSE 0

\* 8 if BRCA1/2_mut else 0 (months)
brca_effect(brca_status) == IF brca_status = "BRCA1/2_mut" THEN 8 ELSE 0

\* the sum of the additive terms both scripts share, in 1/240 month
survival_terms(subtype, age, stage, brca_status) ==
    240 * base_survival(subtype) + age_effect(age)
        + 240 * stage_effect(stage) + 240 * brca_effect(brca_status)

\* gene_df[['TP53','BRCA1','PTEN']].mean(axis=1) * 1.5; gene_sum = the three
\* readings added, in tenths; result in 1/240 month
gene_effect(gene_sum) == 12 * gene_sum

\* -cnv_df.abs().sum(axis=1) * 0.5; cnv_abs_sum in 1/20; result in 1/240 month
cnv_effect(cnv_abs_sum) == -6 * cnv_abs_sum

survival_no_upper_mutant(subtype, age, stage, brca_status, gene_sum, cnv_abs_sum, noise) ==
    Max(2 * 240, survival_terms(subtype, age, stage, brca_status)
                    + gene_effect(gene_sum) + cnv_effect(cnv_abs_sum) + noise)

\* np.clip(base + age + stage + brca + gene + cnv + normal(0, 4), 2, 80)
survival_full(subtype, age, stage, brca_status, gene_sum, cnv_abs_sum, noise) ==
    Clip(survival_terms(subtype, age, stage, brca_status)
            + gene_effect(gene_sum) + cnv_effect(cnv_abs_sum) + noise,
         2 * 240, 80 * 240)

\* max(2, base + age + stage + brca + random.gauss(0, 4))
survival_simple(subtype, age, stage, brca_status, noise) ==
    Max(2 * 240, survival_terms(subtype, age, stage, brca_status) + noise)

\* np.round(survival_months, 1) / round(survival, 1): 1/240 month -> tenths
round_survival(survival) == RoundHalfEven(survival, 24)

\* 0.30 if HGSOC, 0.70 if CCOC, else 0.45, in 1/10000
resist_base(subtype) ==
    IF subtype = "HGSOC" THEN 3000 ELSE IF subtype = "CCOC" THEN 7000 ELSE 4500

\* -0.35 if BRCA1/2_mut else 0, in 1/10000
brca_resist(brca_status) == IF brca_status = "BRCA1/2_mut" THEN -3500 ELSE 0

resistance_prob_no_upper_mutant(subtype, brca_status, gene_resist_effect, noise) ==
    Max(500, resist_base(subtype) + brca_resist(brca_status)
                + gene_resist_effect + noise)

\* np.clip(resist_base + brca + tanh(...) + normal(0, 0.15), 0.05, 0.95)
resistance_prob_full(subtype, brca_status, gene_resist_effect, noise) ==
    Clip(resist_base(subtype) + brca_resist(brca_status)
            + gene_resist_effect + noise, 500, 9500)

\* max(0.05, min(0.95, resist_base + brca_resist + random.gauss(0, 0.15)))
resistance_prob_simple(subtype, brca_status, noise) ==
    Max(500, Min(9500, resist_base(subtype) + brca_resist(brca_status) + noise))

\* np.round(resistance_prob, 3) / round(resistance_prob, 3): 1/10000 -> thousandths
round_resistance(resistance_prob) == RoundHalfEven(resistance_prob, 10)

\* np.random.binomial(1, resistance_prob); u = the uniform draw behind it, 1/10000
platinum_resistant_full(u, resistance_prob) == IF u < resistance_prob THEN 1 ELSE 0

\* 1 if random.random() < resistance_prob else 0; u in 1/10000
platinum_resistant_simple(u, resistance_prob) == IF u < resistance_prob THEN 1 ELSE 0

(***************************************************************************)
(* The pseudo-random generator.  A generator state is the seed it was last *)
(* given and the number of values drawn since; the value at a position is  *)
(* a fixed function of both (the tape).  Values are uniforms in 1/10000.   *)
(***************************************************************************)
\* the tapes the generator may have; one is fixed for a whole behaviour
Tapes == {11, 12}

\* seeds the operating system may hand a starting process
EntropySeeds == {2001, 2002}

\* the value the generator returns at position pos after seed(seed)
Uniform(t, seed, pos) ==
    (seed * 1103 + pos * 7907 + t * 4421 + (seed + pos) * (pos + t) * 13) % 10000

\* a uniform turned into a normal deviate, in tenths of sigma (-3.0 .. 3.0)
Deviate(u) == (u * 61) \div 10000 - 30

\* random.seed(a) / np.random.seed(a)
Seed(a) == [seed |-> a, pos |-> 0]

\* the k-th value after generator state r (k from 0)
Draw(r, k) == Uniform(tape, r.seed, r.pos + k)

\* generator state r after k more values
Advance(r, k) == [r EXCEPT !.pos = @ + k]

seed_kept_mutant(r) == r

\* streamlit_app.py: np.random.seed(42), first statement of generate_demo_data
seed_full(r) == Seed(42)

\* streamlit_app_simple.py: random.seed(42), first statement of the initialization
seed_simple(r) == Seed(42)

(***************************************************************************)
(* Cohort generator: the categorical draws and the remaining fields.       *)
(***************************************************************************)
RECURSIVE SeqSum(_)
\* the sum of a sequence of integers
SeqSum(q) == IF q = <<>> THEN 0 ELSE q[1] + SeqSum(Tail(q))

\* the values and the weights (in 1/10000) of the three categorical draws, as
\* each script writes them
stage_values == <<"IIIC", "IV">>

subtype_values == <<"HGSOC", "CCOC", "Other">>

brca_values == <<"Wild-type", "BRCA1/2_mut">>

\* p=[0.75, 0.25] / [0.75, 0.25]
stage_p(script) == IF script = "full" THEN <<7500, 2500>> ELSE <<7500, 2500>>

subtype_p_heavy_mutant(script) ==
    IF script = "full" THEN <<6500, 2500, 1500>> ELSE <<6000, 2500, 1500>>

\* p=[0.6, 0.25, 0.15] / [0.6, 0.25, 0.15]
subtype_p(script) ==
    IF script = "full" THEN <<6000, 2500, 1500>> ELSE <<6000, 2500, 1500>>

\* p=[0.8, 0.2] / [0.8, 0.2]
brca_p(script) == IF script = "full" THEN <<8000, 2000>> ELSE <<8000, 2000>>

\* np.random.choice(values, p=p) / random.choices(values, p)[0] for the uniform
\* draw u: the first value whose cumulative weight exceeds u
choice(values, p, u) ==
    LET cum(k) == SeqSum(SubSeq(p, 1, k))
        reached == {k \in 1..Len(p) : u < cum(k)}
    IN  IF reached = {} THEN values[Len(values)]
        ELSE values[CHOOSE k \in reached : \A j \in reached : k <= j]

choose_stage(script, u) == choice(stage_values, stage_p(script), u)

choose_subtype(script, u) == choice(subtype_values, subtype_p(script), u)

choose_brca(script, u) == choice(brca_values, brca_p(script), u)

\* int(exp(6 + 1.2 z)) at z = -3, -2, .., 3
LogNormalTable == <<11, 36, 121, 403, 1339, 4447, 14764>>

\* int(lognormal(6, 1.2)); z in tenths of sigma, taken at whole sigmas
lognormal_int(z) == LogNormalTable[Trunc(z, 10) + 4]

\* np.clip(np.random.lognormal(6, 1.2, n).astype(int), 10, 50000)
ca125_full(z) == Clip(lognormal_int(z), 10, 50000)

\* max(10, int(random.lognormvariate(6, 1.2)))
ca125_simple(z) == Max(10, lognormal_int(z))

\* 1 / (1 + exp((survival - 24) / 10)) in 1/10000, as a step function of the
\* survival (1/240 month) taken at 4, 14, 24, 34, 44 and 60 months
death_prob(survival) ==
    IF survival < 4 * 240 THEN 8800
    ELSE IF survival < 14 * 240 THEN 7300
    ELSE IF survival < 24 * 240 THEN 6200
    ELSE IF survival < 34 * 240 THEN 3800
    ELSE IF survival < 44 * 240 THEN 2700
    ELSE IF survival < 60 * 240 THEN 1200
    ELSE 300

\* np.random.binomial(1, p) / 1 if random.random() < p else 0
death_event(u, survival) == IF u < death_prob(survival) THEN 1 ELSE 0

\* np.tanh(x), x in hundredths, result in 1/10000: piecewise linear through
\* tanh(0.5) = 0.46, tanh(1.5) = 0.90, tanh(3) = 0.99
Tanh(x) ==
    LET a == IF x < 0 THEN -x ELSE x
        t == IF a <= 50 THEN 92 * a
             ELSE IF a <= 150 THEN 4600 + 44 * (a - 50)
             ELSE IF a <= 300 THEN 9000 + 6 * (a - 150)
             ELSE 9999
    IN  IF x < 0 THEN -t ELSE t

Abs(x) == IF x < 0 THEN -x ELSE x

(***************************************************************************)
(* streamlit_app_simple.py: the initialization loop.                       *)
(***************************************************************************)
\* one pass of the loop body for ordinal i; r = the generator state before it
patient_simple(r, i) ==
    LET age == age_simple(650 + 12 * Deviate(Draw(r, 0)))
        stage == choose_stage("simple", Draw(r, 1))
        subtype == choose_subtype("simple", Draw(r, 2))
        ca125 == ca125_simple(Deviate(Draw(r, 3)))
        brca == choose_brca("simple", Draw(r, 4))
        survival == survival_simple(subtype, age, stage, brca,
                                    96 * Deviate(Draw(r, 5)))
        resistance_prob == resistance_prob_simple(subtype, brca,
                                                  150 * Deviate(Draw(r, 7)))
    IN  [id |-> patient_id(i), age |-> age, stage |-> stage, subtype |-> subtype,
         ca125 |-> ca125, brca_status |-> brca,
         survival_months |-> round_survival(survival),
         death_event |-> death_event(Draw(r, 6), survival),
         platinum_resistant |-> platinum_resistant_simple(Draw(r, 8), resistance_prob),
         resistance_prob_true |-> round_resistance(resistance_prob)]

\* random.seed(42), then the loop over n ordinals (n = 200 in the script);
\* r0 = the process-global generator before, rng = after
demo_init_simple(r0, n) ==
    LET r == seed_simple(r0)
    IN  [patients |-> [i \in 1..n |-> patient_simple(Advance(r, 9 * (i - 1)), i)],
         rng |-> Advance(r, 9 * n)]

(***************************************************************************)
(* streamlit_app.py: generate_demo_data.                                   *)
(***************************************************************************)
\* the first 20 of the 50 gene names, the ones the feature table keeps
GeneNames20 ==
    <<"TP53", "BRCA1", "BRCA2", "PIK3CA", "PTEN", "MYC", "CCNE1", "RB1", "KRAS", "AKT1",
      "GENE_011", "GENE_012", "GENE_013", "GENE_014", "GENE_015",
      "GENE_016", "GENE_017", "GENE_018", "GENE_019", "GENE_020">>

\* f'cnv_{arm}' for the 11 chromosome arms
CnvNames ==
    <<"cnv_1p", "cnv_1q", "cnv_3q", "cnv_6p", "cnv_8q", "cnv_11p",
      "cnv_17p", "cnv_17q", "cnv_19p", "cnv_20q", "cnv_22q">>

dummy_columns_keep_first_mutant(sorted_names, sorted_values, present) ==
    LET kept == SelectSeq([k \in 1..Len(sorted_values) |-> k],
                          LAMBDA k : sorted_values[k] \in present)
    IN  [k \in 1..Len(kept) |-> sorted_names[kept[k]]]

\* pd.get_dummies(..., drop_first=True) on one column: the categories present,
\* in sorted order, without the first, as column names
dummy_columns(sorted_names, sorted_values, present) ==
    LET kept == SelectSeq([k \in 1..Len(sorted_values) |-> k],
                          LAMBDA k : sorted_values[k] \in present)
    IN  [k \in 1..(Len(kept) - 1) |-> sorted_names[kept[k + 1]]]

\* the columns of the clinical part of the feature table
clinical_columns(patients) ==
    LET present(f) == {patients[i][f] : i \in 1..Len(patients)}
    IN  <<"age">>
        \o dummy_columns(<<"stage_IIIC", "stage_IV">>, <<"IIIC", "IV">>,
                         present("stage"))
        \o dummy_columns(<<"subtype_CCOC", "subtype_HGSOC", "subtype_Other">>,
                         <<"CCOC", "HGSOC", "Other">>, present("subtype"))
        \o dummy_columns(<<"brca_status_BRCA1/2_mut", "brca_status_Wild-type">>,
                         <<"BRCA1/2_mut", "Wild-type">>, present("brca_status"))
        \o <<"log_ca125">>

\* np.log10(ca125), to whole units
log_ca125(ca125) == Len(Digits(ca125)) - 1

\* the value of a clinical column for one patient
clinical_value(p, column) ==
    IF column = "age" THEN p.age
    ELSE IF column = "log_ca125" THEN log_ca125(p.ca125)
    ELSE IF column = "stage_IV" THEN (IF p.stage = "IV" THEN 1 ELSE 0)
    ELSE IF column = "subtype_HGSOC" THEN (IF p.subtype = "HGSOC" THEN 1 ELSE 0)
    ELSE IF column = "subtype_Other" THEN (IF p.subtype = "Other" THEN 1 ELSE 0)
    ELSE IF column = "subtype_CCOC" THEN (IF p.subtype = "CCOC" THEN 1 ELSE 0)
    ELSE IF column = "stage_IIIC" THEN (IF p.stage = "IIIC" THEN 1 ELSE 0)
    ELSE IF column = "brca_status_Wild-type"
        THEN (IF p.brca_status = "Wild-type" THEN 1 ELSE 0)
    ELSE (IF p.brca_status = "BRCA1/2_mut" THEN 1 ELSE 0)

\* generate_demo_data(n): r0 = the process-global generator before, rng = after.
\* The draws are vectorized, one block of positions per statement.
generate_demo_data(r0, n) ==
    LET r == seed_full(r0)
        U(k) == Draw(r, k)
        Z(k) == Deviate(Draw(r, k))
        age == [i \in 1..n |-> age_full(650 + 12 * Z(i - 1))]
        stage == [i \in 1..n |-> choose_stage("full", U(n + i - 1))]
        subtype == [i \in 1..n |-> choose_subtype("full", U(2 * n + i - 1))]
        ca125 == [i \in 1..n |-> ca125_full(Z(3 * n + i - 1))]
        brca == [i \in 1..n |-> choose_brca("full", U(4 * n + i - 1))]
        hgsoc == {i \in 1..n : subtype[i] = "HGSOC"}
        ccoc == {i \in 1..n : subtype[i] = "CCOC"}
        h == Cardinality(hgsoc)
        c == Cardinality(ccoc)
        rankH(i) == Cardinality({j \in hgsoc : j < i})
        rankC(i) == Cardinality({j \in ccoc : j < i})
        \* first position of each block of draws
        gene0 == 5 * n
        sigH0 == gene0 + 50 * n
        sigC0 == sigH0 + 10 * h
        cnv0 == sigC0 + 10 * c
        gain3q0 == cnv0 + 11 * n
        gain8q0 == gain3q0 + h
        noise0 == gain8q0 + n
        death0 == noise0 + n
        rnoise0 == death0 + n
        flag0 == rnoise0 + n
        \* gene_data[g - 1, i - 1], in tenths
        gene(g, i) ==
            50 + 2 * Z(gene0 + (g - 1) * n + i - 1)
            + (IF g <= 10 /\ i \in hgsoc
                 THEN 15 + Trunc(4 * Z(sigH0 + (g - 1) * h + rankH(i)), 10) ELSE 0)
            + (IF g > 10 /\ g <= 20 /\ i \in ccoc
                 THEN 18 + Trunc(3 * Z(sigC0 + (g - 11) * c + rankC(i)), 10) ELSE 0)
        \* cnv_data[a - 1, i - 1], in 1/20
        cnv(a, i) ==
            Trunc(7 * Z(cnv0 + (a - 1) * n + i - 1), 10)
            + (IF a = 3 /\ i \in hgsoc
                 THEN 8 + Trunc(4 * Z(gain3q0 + rankH(i)), 10) ELSE 0)
            + (IF a = 5 THEN 6 + Trunc(5 * Z(gain8q0 + i - 1), 10) ELSE 0)
        gene_sum(i) == gene(1, i) + gene(2, i) + gene(5, i)
        cnv_abs_sum(i) == SeqSum([a \in 1..11 |-> Abs(cnv(a, i))])
        survival == [i \in 1..n |->
            survival_full(subtype[i], age[i], stage[i], brca[i], gene_sum(i),
                          cnv_abs_sum(i), 96 * Z(noise0 + i - 1))]
        resistance_prob == [i \in 1..n |->
            resistance_prob_full(subtype[i], brca[i],
                                 Tanh(2 * gene(4, i) - gene(2, i)),
                                 150 * Z(rnoise0 + i - 1))]
        patients == [i \in 1..n |->
            [id |-> ids_full(n)[i], age |-> age[i], stage |-> stage[i],
             subtype |-> subtype[i], ca125 |-> ca125[i], brca_status |-> brca[i],
             survival_months |-> round_survival(survival[i]),
             death_event |-> death_event(U(death0 + i - 1), survival[i]),
             platinum_resistant |->
                platinum_resistant_full(U(flag0 + i - 1), resistance_prob[i]),
             resistance_prob_true |-> round_resistance(resistance_prob[i])]]
        clinical == clinical_columns(patients)
        columns == clinical \o GeneNames20 \o CnvNames
        row(i) ==
            [k \in 1..Len(clinical) |-> clinical_value(patients[i], clinical[k])]
            \o [g \in 1..20 |-> gene(g, i)]
            \o [a \in 1..11 |-> cnv(a, i)]
    IN  [patients |-> patients,
         features |-> [columns |-> columns, rows |-> [i \in 1..n |-> row(i)]],
         rng |-> Advance(r, flag0 + n)]

(***************************************************************************)
(* streamlit_app.py: train_models.  A fitted forest is modelled by one     *)
(* split on the first feature column (age) at the mean of the training     *)
(* rows, each side predicting the mean of its training targets.            *)
(***************************************************************************)
\* ceil(0.3 * n): the size of the test partition
n_test(n) == (3 * n + 9) \div 10

\* the indices of the rows whose platinum_resistant label is y
class_rows(targets, y) ==
    {i \in 1..Len(targets) : targets[i].platinum_resistant = y}

\* how many rows of a class of size count go to the train partition: its share
\* of n_train rounded down, plus the one row left over when this class has the
\* larger remainder (the class of label 0 on a tie)
train_share(count, other, y) ==
    LET n == count + other
        n_train == n - n_test(n)
        left == n_train - ((n_train * count) \div n) - ((n_train * other) \div n)
        mine == (n_train * count) % n
        theirs == (n_train * other) % n
    IN  (n_train * count) \div n
        + (IF left > 0 /\ (mine > theirs \/ (mine = theirs /\ y = 0)) THEN 1 ELSE 0)

RECURSIVE Lowest(_, _)
\* the k smallest members of a set of integers
Lowest(S, k) ==
    IF k = 0 \/ S = {} THEN {}
    ELSE LET m == CHOOSE x \in S : \A y \in S : x <= y
         IN  {m} \cup Lowest(S \ {m}, k - 1)

RECURSIVE SetSum(_, _)
\* the sum of f over a set of rows
SetSum(f, rows) ==
    IF rows = {} THEN 0
    ELSE LET x == CHOOSE x \in rows : TRUE
         IN  f[x] + SetSum(f, rows \ {x})

RECURSIVE ISqrtFrom(_, _)
ISqrtFrom(x, r) == IF (r + 1) * (r + 1) > x THEN r ELSE ISqrtFrom(x, r + 1)

\* the integer square root
ISqrt(x) == ISqrtFrom(x, 0)

\* train_test_split(..., test_size=0.3, random_state=42, stratify=platinum_resistant):
\* the train partition (the rows of each class taken in index order)
train_rows(targets) ==
    LET neg == class_rows(targets, 0)
        pos == class_rows(targets, 1)
    IN  Lowest(neg, train_share(Cardinality(neg), Cardinality(pos), 0))
        \cup Lowest(pos, train_share(Cardinality(pos), Cardinality(neg), 1))

test_rows_all_mutant(targets) == 1..Len(targets)

\* the test partition: the rows the split does not put in the train partition
test_rows(targets) == (1..Len(targets)) \ train_rows(targets)

\* train_models raises: the stratified split refuses a class with one member
\* or a partition smaller than the number of classes; with one class only,
\* predict_proba(X_test)[:, 1] and roc_auc_score raise
train_raises(targets) ==
    LET neg == Cardinality(class_rows(targets, 0))
        pos == Cardinality(class_rows(targets, 1))
        n == Len(targets)
        test == test_rows(targets)
    IN  \/ neg < 2
        \/ pos < 2
        \/ n_test(n) < 2
        \/ n - n_test(n) < 2
        \/ \A i \in test : targets[i].platinum_resistant = 0
        \/ \A i \in test : targets[i].platinum_resistant = 1

\* estimator.fit(X_train, y): y = the target of every row, scale = 1 for the
\* regressor (tenths of a month) and 100 for the classifier (hundredths)
fit_forest(estimator, features, y, train, scale) ==
    LET x == [i \in 1..Len(features.rows) |-> features.rows[i][1]]
        cut == SetSum(x, train) \div Cardinality(train)
        low == {i \in train : x[i] <= cut}
        high == train \ low
        mean(rows) == (scale * SetSum(y, rows)) \div Cardinality(rows)
    IN  [estimator |-> estimator, fitted_on |-> train, cut |-> cut,
         low |-> mean(low), high |-> IF high = {} THEN mean(low) ELSE mean(high)]

\* survival_model.predict(X)[0] / resistance_model.predict_proba(X)[0, 1] for one row
predict(model, feature_row) ==
    IF feature_row[1] <= model.cut THEN model.low ELSE model.high

\* np.corrcoef(a, b)[0, 1] over the rows, in hundredths; nan when either
\* vector is constant.  a and b are in tenths of a month.
corrcoef(a, b, rows) ==
    LET n == Cardinality(rows)
        da == [i \in DOMAIN a |-> n * (a[i] \div 10) - SetSum([j \in DOMAIN a |-> a[j] \div 10], rows)]
        db == [i \in DOMAIN b |-> n * (b[i] \div 10) - SetSum([j \in DOMAIN b |-> b[j] \div 10], rows)]
        cov == SetSum([i \in DOMAIN a |-> da[i] * db[i]], rows)
        va == SetSum([i \in DOMAIN a |-> da[i] * da[i]], rows)
        vb == SetSum([i \in DOMAIN b |-> db[i] * db[i]], rows)
        root == ISqrt(va) * ISqrt(vb)
    IN  IF va = 0 \/ vb = 0 \/ root = 0 THEN [nan |-> TRUE, value |-> 0]
        ELSE [nan |-> FALSE, value |-> Clip((100 * cov) \div root, -100, 100)]

\* roc_auc_score(labels, scores) over the rows, in hundredths
roc_auc_score(labels, scores, rows) ==
    LET pos == {i \in rows : labels[i] = 1}
        neg == rows \ pos
        above == Cardinality({q \in pos \X neg : scores[q[1]] > scores[q[2]]})
        ties == Cardinality({q \in pos \X neg : scores[q[1]] = scores[q[2]]})
    IN  (200 * above + 100 * ties) \div (2 * Cardinality(pos) * Cardinality(neg))

\* train_models(features, targets) when it does not raise
train_models(features, targets) ==
    LET n == Len(targets)
        train == train_rows(targets)
        test == test_rows(targets)
        y_surv == [i \in 1..n |-> targets[i].survival_months]
        y_resist == [i \in 1..n |-> targets[i].platinum_resistant]
        survival_model ==
            fit_forest("RandomForestRegressor", features, y_surv, train, 1)
        resistance_model ==
            fit_forest("RandomForestClassifier", features, y_resist, train, 100)
        surv_pred == [i \in 1..n |-> predict(survival_model, features.rows[i])]
        resist_pred_prob ==
            [i \in 1..n |-> predict(resistance_model, features.rows[i])]
    IN  [survival_model |-> survival_model,
         resistance_model |-> resistance_model,
         metrics |->
            [survival_mae |->
                SetSum([i \in 1..n |-> Abs(y_surv[i] - surv_pred[i])], test)
                    \div Cardinality(test),
             survival_cor |-> corrcoef(surv_pred, y_surv, test),
             resistance_auc |-> roc_auc_score(y_resist, resist_pred_prob, test)],
         test_data |-> [X_test |-> test, y_surv_test |-> [i \in test |-> y_surv[i]],
                        y_resist_test |-> [i \in test |-> y_resist[i]]]]

(***************************************************************************)
(* Digital Twin Reporter: the report button handlers.                      *)
(***************************************************************************)
\* the character codes the string hash reads
CharCode(ch) ==
    IF ch = "O" THEN 79 ELSE IF ch = "V" THEN 86
    ELSE 47 + (CHOOSE d \in 1..10 : DigitChar[d] = ch)

RECURSIVE StrHash(_, _)
\* hash(str): a fold over the characters, started from the process's salt
StrHash(str, h) ==
    IF str = <<>> THEN h
    ELSE StrHash(Tail(str), (h * 31 + CharCode(Head(str))) % 1000003)

\* hash(selected_patient_id) % 1000
hash_mod_1000(selected_patient_id, salt) ==
    StrHash(selected_patient_id, 7 + 104729 * salt) % 1000

\* patients[patients['id'] == selected_patient_id].index: the matching rows
matching_rows(patients, selected_patient_id) ==
    {i \in 1..Len(patients) : patients[i].id = selected_patient_id}

\* streamlit_app.py, body of the button branch: index[0], predict, classify
report_full(patients, features, survival_model, resistance_model, selected_patient_id) ==
    LET patient_idx == CHOOSE i \in matching_rows(patients, selected_patient_id) :
                          \A j \in matching_rows(patients, selected_patient_id) : i <= j
        pred_survival == predict(survival_model, features.rows[patient_idx])
        pred_resistance_prob == predict(resistance_model, features.rows[patient_idx])
    IN  [shown |-> TRUE, id |-> selected_patient_id, patient |-> patients[patient_idx],
         pred_survival |-> pred_survival,
         pred_resistance_prob |-> pred_resistance_prob,
         risk_category |-> risk_category_full(pred_survival),
         treatment_rec |-> treatment_rec_full(pred_resistance_prob)]

\* streamlit_app_simple.py, body of the button branch: next(...), reseed the
\* global generator from the identifier's hash, two gauss draws, classify.
\* r = the global generator after random.seed(hash(id) % 1000).
report_simple(patients, r, selected_patient_id) ==
    LET selected_patient ==
            patients[CHOOSE i \in matching_rows(patients, selected_patient_id) :
                        \A j \in matching_rows(patients, selected_patient_id) : i <= j]
        pred_survival ==
            Max(2 * 10, selected_patient.survival_months + 3 * Deviate(Draw(r, 0)))
        base_resist ==
            IF selected_patient.subtype = "HGSOC" THEN 30
            ELSE IF selected_patient.subtype = "CCOC" THEN 70 ELSE 45
        brca_adjust ==
            IF selected_patient.brca_status = "BRCA1/2_mut" THEN -30 ELSE 0
        pred_resistance_prob ==
            Max(5, Min(95, base_resist + brca_adjust + Deviate(Draw(r, 1))))
    IN  [shown |-> TRUE, id |-> selected_patient_id, patient |-> selected_patient,
         pred_survival |-> pred_survival,
         pred_resistance_prob |-> pred_resistance_prob,
         risk_category |-> risk_category_simple(pred_survival),
         treatment_rec |-> treatment_rec_simple(pred_resistance_prob)]

(***************************************************************************)
(* The server process: sessions, script runs, widgets.                     *)
(***************************************************************************)
\* number of concurrent browser sessions
NSessions == 2
\* n_patients of every generator call, scaled down from the scripts' 200
CohortSize == 4

Sessions == 1..NSessions

\* per-process salts of the string hash
Salts == {0, 1}

NoReport == [shown |-> FALSE]

NoPage == [status |-> "none", report |-> NoReport]

\* st.cache_data memo: nothing cached
NoCache == [data |-> <<>>, models |-> <<>>]

\* a script thread that is not running
IdleThread ==
    [pc |-> "idle", sel |-> 0, click |-> FALSE, i |-> 0, patients |-> <<>>, runs |-> 0]

NoAudit ==
    [generated |-> {}, genCalls |-> 0, genAfterReport |-> FALSE, first |-> <<>>,
     stores |-> [s \in Sessions |-> [data |-> 0, models |-> 0]]]

\* a started server process with no session connected
Init ==
    /\ call = [op |-> "none"]
    /\ variant \in {"full", "simple"}
    /\ tape \in Tapes
    /\ hashSalt \in Salts
    /\ rng \in {Seed(e) : e \in EntropySeeds}
    /\ cache = NoCache
    /\ session_state = [s \in Sessions |-> <<>>]
    /\ widget = [s \in Sessions |-> 0]
    /\ page = [s \in Sessions |-> NoPage]
    /\ audit = NoAudit
    /\ thread = [s \in Sessions |-> IdleThread]

data_regenerated_mutant(st) == TRUE

\* if 'data_generated' not in st.session_state
needs_data(st) == "data_generated" \notin DOMAIN st

models_never_trained_mutant(st) == FALSE

\* if 'models_trained' not in st.session_state
needs_models(st) == "models_trained" \notin DOMAIN st

\* if 'demo_initialized' not in st.session_state
needs_demo(st) == "demo_initialized" \notin DOMAIN st

\* @st.cache_data generate_demo_data(): the memo entry, or a call that fills it
cached_generate_demo_data(c, r) ==
    IF c.data # <<>>
        THEN [value |-> c.data[1], cache |-> c, rng |-> r, ran |-> FALSE]
        ELSE With(generate_demo_data(r, CohortSize), LAMBDA g :
                LET value == [patients |-> g.patients, features |-> g.features]
                IN  [value |-> value, cache |-> [c EXCEPT !.data = <<value>>],
                     rng |-> g.rng, ran |-> TRUE])

\* @st.cache_data train_models(features, targets), keyed by its arguments; a
\* call that raises leaves no entry
cached_train_models(c, features, targets) ==
    IF c.models # <<>> /\ c.models[1].key = <<features, targets>>
        THEN [raised |-> FALSE, value |-> c.models[1].value, cache |-> c]
    ELSE IF train_raises(targets)
        THEN [raised |-> TRUE, value |-> <<>>, cache |-> c]
    ELSE With(train_models(features, targets), LAMBDA value :
            [raised |-> FALSE, value |-> value,
             cache |-> [c EXCEPT !.models =
                           <<[key |-> <<features, targets>>, value |-> value]>>]])

\* the history after a generator call that ran (not a memo hit)
audit_generated(a, value) ==
    [a EXCEPT !.generated = @ \cup {value},
              !.genCalls = Min(@ + 1, 2),
              !.genAfterReport = @ \/ a.first # <<>>]

\* the history after a report was rendered: it keeps the first report made
\* for the first patient of the cohort
audit_report(a, report) ==
    IF a.first = <<>> /\ report.id = patient_id(1)
        THEN [a EXCEPT !.first = <<report>>] ELSE a

models_stored_partial_mutant(st, fit) ==
    IF fit.raised
        THEN [survival_model |-> <<>>] @@ st
        ELSE [survival_model |-> fit.value.survival_model,
              resistance_model |-> fit.value.resistance_model,
              metrics |-> fit.value.metrics,
              test_data |-> fit.value.test_data,
              models_trained |-> TRUE] @@ st

\* survival_model, resistance_model, metrics, test_data = train_models(...) and
\* the five stores that follow it: a call that raises reaches none of them
models_stored(st, fit) ==
    IF fit.raised
        THEN st
        ELSE [survival_model |-> fit.value.survival_model,
              resistance_model |-> fit.value.resistance_model,
              metrics |-> fit.value.metrics,
              test_data |-> fit.value.test_data,
              models_trained |-> TRUE] @@ st

\* one run of streamlit_app.py, top to bottom, for session s; sel = the
\* dropdown position the run sees, click = the button was pressed
run_full(s, sel, click) ==
    LET st0 == session_state[s]
        generated == needs_data(st0)
    IN  With(IF generated THEN cached_generate_demo_data(cache, rng) ELSE <<>>,
          LAMBDA gen :
        With(IF generated
               THEN [patients |-> gen.value.patients, features |-> gen.value.features,
                     targets |-> [i \in 1..Len(gen.value.patients) |->
                        [survival_months |-> gen.value.patients[i].survival_months,
                         platinum_resistant |->
                            gen.value.patients[i].platinum_resistant]],
                     data_generated |-> TRUE] @@ st0
               ELSE st0,
          LAMBDA st1 :
        With(IF needs_models(st1)
               THEN cached_train_models(IF generated THEN gen.cache ELSE cache,
                                        st1.features, st1.targets)
               ELSE <<>>,
          LAMBDA fit :
        LET cache1 == IF generated THEN gen.cache ELSE cache
            rng1 == IF generated THEN gen.rng ELSE rng
            audit1 == IF generated /\ gen.ran
                        THEN audit_generated(audit, gen.value) ELSE audit
            audit2 == IF generated
                        THEN [audit1 EXCEPT !.stores[s].data = Min(@ + 1, 2)]
                        ELSE audit1
            training == needs_models(st1)
        IN  IF training /\ fit.raised
            THEN \* the exception ends the run: nothing below line 200 executes
                 [session_state |-> models_stored(st1, fit), cache |-> fit.cache,
                  rng |-> rng1,
                  audit |-> audit2, widget |-> widget[s],
                  page |-> [status |-> "error", report |-> NoReport]]
            ELSE With(IF training THEN models_stored(st1, fit) ELSE st1,
                   LAMBDA st2 :
                 With(IF click
                        THEN report_full(st2.patients, st2.features,
                                         st2.survival_model, st2.resistance_model,
                                         st2.patients[sel].id)
                        ELSE NoReport,
                   LAMBDA report :
                 LET audit3 == IF training
                                 THEN [audit2 EXCEPT !.stores[s].models = Min(@ + 1, 2)]
                                 ELSE audit2
                 IN  [session_state |-> st2,
                      cache |-> IF training THEN fit.cache ELSE cache1,
                      rng |-> rng1,
                      audit |-> IF click THEN audit_report(audit3, report) ELSE audit3,
                      widget |-> sel,
                      page |-> [status |-> "ok", report |-> report]])))))

\* one run of streamlit_app_simple.py, top to bottom, for session s
run_simple(s, sel, click) ==
    LET st0 == session_state[s]
        generated == needs_demo(st0)
    IN  With(IF generated THEN demo_init_simple(rng, CohortSize) ELSE <<>>,
          LAMBDA gen :
        With(IF generated
               THEN [patients |-> gen.patients, demo_initialized |-> TRUE] @@ st0
               ELSE st0,
          LAMBDA st1 :
        With(Seed(hash_mod_1000(st1.patients[sel].id, hashSalt)), LAMBDA seeded :
        With(IF click
               THEN report_simple(st1.patients, seeded, st1.patients[sel].id)
               ELSE NoReport,
          LAMBDA report :
        LET rng1 == IF generated THEN gen.rng ELSE rng
            audit1 == IF generated
                        THEN [audit_generated(audit, [patients |-> gen.patients])
                                EXCEPT !.stores[s].data = Min(@ + 1, 2)]
                        ELSE audit
        IN  [session_state |-> st1, cache |-> cache,
             rng |-> IF click THEN Advance(seeded, 2) ELSE rng1,
             audit |-> IF click THEN audit_report(audit1, report) ELSE audit1,
             widget |-> sel,
             page |-> [status |-> "ok", report |-> report]]))))

\* the script the process serves
run_script(s, sel, click) ==
    IF variant = "full" THEN run_full(s, sel, click) ELSE run_simple(s, sel, click)

\* the effect of one script run on the state
Apply(s, run) ==
    \E out \in {run} :
        /\ session_state' = [session_state EXCEPT ![s] = out.session_state]
        /\ cache' = out.cache
        /\ rng' = out.rng
        /\ audit' = out.audit
        /\ widget' = [widget EXCEPT ![s] = out.widget]
        /\ page' = [page EXCEPT ![s] = out.page]
        /\ UNCHANGED <<call, variant, tape, hashSalt, thread>>

\* a browser connects: the first run of the script, dropdown at its first
\* option, button not pressed
Connect(s) ==
    /\ page[s].status = "none"
    /\ Apply(s, run_script(s, 1, FALSE))

\* any rerun without a widget change (also the retry after a failed run)
Rerun(s) ==
    /\ page[s].status # "none"
    /\ Apply(s, run_script(s, IF widget[s] = 0 THEN 1 ELSE widget[s], FALSE))

\* the user picks option i of the rendered dropdown: a rerun with it selected
SelectPatient(s, i) ==
    /\ page[s].status = "ok"
    /\ i \in 1..Len(session_state[s].patients)
    /\ i # widget[s]
    /\ Apply(s, run_script(s, i, FALSE))

\* the user presses "Generate Digital Twin Report": a rerun with the button set
ClickReport(s) ==
    /\ page[s].status = "ok"
    /\ Apply(s, run_script(s, widget[s], TRUE))

\* the browser tab closes: the session and its state are dropped
CloseSession(s) ==
    /\ page[s].status # "none"
    /\ session_state' = [session_state EXCEPT ![s] = <<>>]
    /\ widget' = [widget EXCEPT ![s] = 0]
    /\ page' = [page EXCEPT ![s] = NoPage]
    /\ audit' = [audit EXCEPT !.stores[s] = [data |-> 0, models |-> 0]]
    /\ UNCHANGED <<call, variant, tape, hashSalt, rng, cache, thread>>

\* the hosting environment restarts the process: a new interpreter (new hash
\* salt, generator seeded from the operating system), no memo, no session
ProcessRestart ==
    /\ \E s \in Sessions : page[s].status # "none"
    /\ hashSalt' \in Salts
    /\ rng' \in {Seed(e) : e \in EntropySeeds}
    /\ cache' = NoCache
    /\ session_state' = [s \in Sessions |-> <<>>]
    /\ widget' = [s \in Sessions |-> 0]
    /\ page' = [s \in Sessions |-> NoPage]
    /\ audit' = [audit EXCEPT !.stores = [s \in Sessions |-> [data |-> 0, models |-> 0]]]
    /\ UNCHANGED <<call, variant, tape, thread>>

Next ==
    \/ \E s \in Sessions : Connect(s)
    \/ \E s \in Sessions : Rerun(s)
    \/ \E s \in Sessions, i \in 1..CohortSize : SelectPatient(s, i)
    \/ \E s \in Sessions : ClickReport(s)
    \/ \E s \in Sessions : CloseSession(s)
    \/ ProcessRestart

Spec == Init /\ [][Next]_vars

(***************************************************************************)
(* streamlit_app_simple.py run by one script thread per session.  The      *)
(* threads share the interpreter, hence the module-level generator of      *)
(* `random`; the interpreter may switch threads between any two steps.     *)
(* A step here is one statement of the script (one pass of the loop body   *)
(* counts as a statement).                                                 *)
(***************************************************************************)
\* script runs a session makes while its thread is followed step by step
MaxRuns == 2

\* the thread of session s goes from position `from` to `to` with new locals
Step(s, from, to, locals) ==
    /\ thread[s].pc = from
    /\ thread' = [thread EXCEPT ![s] = [pc |-> to] @@ locals @@ thread[s]]

\* a browser event starts a script run: the connection (dropdown at its first
\* option), a selection (option sel) or a press of the button (click)
BeginRun(s, sel, click) ==
    /\ variant = "simple"
    /\ thread[s].runs < MaxRuns
    /\ IF page[s].status = "none"
          THEN sel = 1 /\ ~click
          ELSE IF click THEN sel = widget[s] ELSE sel # widget[s]
    /\ Step(s, "idle", IF needs_demo(session_state[s]) THEN "seed" ELSE "select",
            [sel |-> sel, click |-> click, runs |-> thread[s].runs + 1])
    /\ UNCHANGED <<call, variant, tape, hashSalt, rng, cache, session_state, widget,
                   page, audit>>

\* random.seed(42); patients = []
SeedDemo(s) ==
    /\ Step(s, "seed", "loop", [i |-> 1, patients |-> <<>>])
    /\ rng' = seed_simple(rng)
    /\ UNCHANGED <<call, variant, tape, hashSalt, cache, session_state, widget, page,
                   audit>>

\* one pass of `for i in range(1, 201)`: nine draws on the shared generator
DrawPatient(s) ==
    /\ Step(s, "loop", IF thread[s].i = CohortSize THEN "store" ELSE "loop",
            [i |-> thread[s].i + 1,
             patients |-> Append(thread[s].patients,
                                 patient_simple(rng, thread[s].i))])
    /\ rng' = Advance(rng, 9)
    /\ UNCHANGED <<call, variant, tape, hashSalt, cache, session_state, widget, page,
                   audit>>

\* st.session_state.patients = patients; st.session_state.demo_initialized = True
StoreDemo(s) ==
    /\ Step(s, "store", "select", [i |-> 0, patients |-> <<>>])
    /\ session_state' =
         [session_state EXCEPT ![s] =
            [patients |-> thread[s].patients, demo_initialized |-> TRUE] @@ @]
    /\ UNCHANGED <<call, variant, tape, hashSalt, rng, cache, widget, page, audit>>

\* st.selectbox(...) and st.button(...): the run ends here unless the button
\* was pressed
RenderSelect(s) ==
    /\ Step(s, "select", IF thread[s].click THEN "reseed" ELSE "idle", <<>>)
    /\ widget' = [widget EXCEPT ![s] = thread[s].sel]
    /\ page' = [page EXCEPT ![s] =
                  IF thread[s].click THEN @ ELSE [status |-> "ok", report |-> NoReport]]
    /\ UNCHANGED <<call, variant, tape, hashSalt, rng, cache, session_state, audit>>

\* random.seed(hash(selected_patient_id) % 1000)
SeedReport(s) ==
    /\ Step(s, "reseed", "predict", <<>>)
    /\ rng' = Seed(hash_mod_1000(session_state[s].patients[thread[s].sel].id, hashSalt))
    /\ UNCHANGED <<call, variant, tape, hashSalt, cache, session_state, widget, page,
                   audit>>

\* the two random.gauss draws of the handler and the rendering of the report
PredictReport(s) ==
    /\ Step(s, "predict", "idle", <<>>)
    /\ page' = [page EXCEPT ![s] =
                  [status |-> "ok",
                   report |-> report_simple(session_state[s].patients, rng,
                                  session_state[s].patients[thread[s].sel].id)]]
    /\ rng' = Advance(rng, 2)
    /\ UNCHANGED <<call, variant, tape, hashSalt, cache, session_state, widget, audit>>

NextThreads ==
    \/ \E s \in Sessions, sel \in 1..CohortSize, click \in BOOLEAN : BeginRun(s, sel, click)
    \/ \E s \in Sessions : SeedDemo(s)
    \/ \E s \in Sessions : DrawPatient(s)
    \/ \E s \in Sessions : StoreDemo(s)
    \/ \E s \in Sessions : RenderSelect(s)
    \/ \E s \in Sessions : SeedReport(s)
    \/ \E s \in Sessions : PredictReport(s)

InitThreads == Init /\ variant = "simple"

SpecThreads == InitThreads /\ [][NextThreads]_vars

(***************************************************************************)
(* Harness for the pure functions: each action applies one of them to      *)
(* inputs drawn from bounded sets and records the call; a behaviour makes  *)
(* one call.                                                               *)
(***************************************************************************)
Subtypes == {"HGSOC", "CCOC", "Other"}

Stages == {"IIIC", "IV"}

BrcaStatuses == {"Wild-type", "BRCA1/2_mut"}

\* sums of three gene readings (tenths) and of |cnv| over the arms (1/20)
GeneSums == {0, 150}

CnvSums == {0, 40}

\* values of tanh(...), in 1/10000: its two ends and its middle
TanhValues == {-9999, 0, 9999}

\* uniform draws behind a Bernoulli draw, in 1/10000
UniformDraws == {0, 9999}

\* the server process is not running: the harness leaves these alone
MainIdle ==
    /\ variant = "none"
    /\ tape = 0
    /\ hashSalt = 0
    /\ rng = [seed |-> 0, pos |-> 0]
    /\ cache = <<>>
    /\ session_state = <<>>
    /\ widget = <<>>
    /\ page = <<>>
    /\ audit = <<>>
    /\ thread = <<>>

InitHarness == call = [op |-> "none"] /\ MainIdle

\* streamlit_app.py report handler, from the predictions on
ReportFull(s, p) ==
    /\ call.op = "none"
    /\ call' = [op |-> "report_full", pred_survival |-> s, pred_resistance_prob |-> p,
                risk_category |-> risk_category_full(s),
                treatment_rec |-> treatment_rec_full(p)]
    /\ UNCHANGED mainVars

\* streamlit_app_simple.py report handler, from the predictions on
ReportSimple(s, p) ==
    /\ call.op = "none"
    /\ call' = [op |-> "report_simple", pred_survival |-> s, pred_resistance_prob |-> p,
                risk_category |-> risk_category_simple(s),
                treatment_rec |-> treatment_rec_simple(p)]
    /\ UNCHANGED mainVars

NextReport ==
    /\ call.op = "none"
    /\ \/ \E s \in (2 * 10)..MaxPredSurvival, p \in 0..100 : ReportFull(s, p)
       \/ \E s \in (2 * 10)..MaxPredSurvival, p \in 5..95 : ReportSimple(s, p)

SpecReport == InitHarness /\ [][NextReport]_vars

GenIdsFull(n) ==
    /\ call.op = "none"
    /\ call' = [op |-> "ids_full", n |-> n, ids |-> ids_full(n)]
    /\ UNCHANGED mainVars

GenIdsSimple ==
    /\ call.op = "none"
    /\ call' = [op |-> "ids_simple", n |-> Len(ids_simple), ids |-> ids_simple]
    /\ UNCHANGED mainVars

NextIds ==
    /\ call.op = "none"
    /\ \/ \E n \in 0..MaxCount : GenIdsFull(n)
       \/ GenIdsSimple

SpecIds == InitHarness /\ [][NextIds]_vars

GenAgeFull(x) ==
    /\ call.op = "none"
    /\ call' = [op |-> "age_full", x |-> x, age |-> age_full(x)]
    /\ UNCHANGED mainVars

GenAgeSimple(x) ==
    /\ call.op = "none"
    /\ call' = [op |-> "age_simple", x |-> x, age |-> age_simple(x)]
    /\ UNCHANGED mainVars

GenSurvivalFull(subtype, age, stage, brca, g, c, noise) ==
    LET survival == survival_full(subtype, age, stage, brca, g, c, noise)
    IN  /\ call.op = "none"
        /\ call' = [op |-> "survival_full", subtype |-> subtype, age |-> age,
                    stage |-> stage, brca_status |-> brca, gene_sum |-> g,
                    cnv_abs_sum |-> c, noise |-> noise, survival |-> survival,
                    survival_months |-> round_survival(survival)]
        /\ UNCHANGED mainVars

GenSurvivalSimple(subtype, age, stage, brca, noise) ==
    LET survival == survival_simple(subtype, age, stage, brca, noise)
    IN  /\ call.op = "none"
        /\ call' = [op |-> "survival_simple", subtype |-> subtype, age |-> age,
                    stage |-> stage, brca_status |-> brca, noise |-> noise,
                    survival |-> survival,
                    survival_months |-> round_survival(survival)]
        /\ UNCHANGED mainVars

GenResistanceFull(subtype, brca, t, noise, u) ==
    LET resistance_prob == resistance_prob_full(subtype, brca, t, noise)
    IN  /\ call.op = "none"
        /\ call' = [op |-> "resistance_full", subtype |-> subtype, brca_status |-> brca,
                    gene_resist_effect |-> t, noise |-> noise, u |-> u,
                    resistance_prob |-> resistance_prob,
                    platinum_resistant |-> platinum_resistant_full(u, resistance_prob),
                    resistance_prob_true |-> round_resistance(resistance_prob)]
        /\ UNCHANGED mainVars

GenResistanceSimple(subtype, brca, noise, u) ==
    LET resistance_prob == resistance_prob_simple(subtype, brca, noise)
    IN  /\ call.op = "none"
        /\ call' = [op |-> "resistance_simple", subtype |-> subtype, brca_status |-> brca,
                    gene_resist_effect |-> 0, noise |-> noise, u |-> u,
                    resistance_prob |-> resistance_prob,
                    platinum_resistant |-> platinum_resistant_simple(u, resistance_prob),
                    resistance_prob_true |-> round_resistance(resistance_prob)]
        /\ UNCHANGED mainVars

\* the categorical draws of one patient, in the script named
GenCategorical(script, u1, u2, u3) ==
    /\ call.op = "none"
    /\ call' = [op |-> "categorical", script |-> script, u |-> <<u1, u2, u3>>,
                stage |-> choose_stage(script, u1),
                subtype |-> choose_subtype(script, u2),
                brca_status |-> choose_brca(script, u3),
                p |-> <<stage_p(script), subtype_p(script), brca_p(script)>>]
    /\ UNCHANGED mainVars

\* uniform draws behind a categorical draw, in 1/10000: the ends of the range
\* and both sides of every cumulative weight
CategoricalDraws == {0, 5999, 6000, 7499, 7500, 7999, 8000, 8499, 8500, 9999}

AgeDraws == (-MaxAgeDraw)..MaxAgeDraw

\* outcomes of np.random.normal(0, 4), in 1/240 month (the legacy polar method
\* returns at most 12.007 standard deviations, 48.03 months)
SurvivalNoise == {240 * k : k \in (-MaxNoiseMonths)..MaxNoiseMonths}

\* the farthest random.gauss(0, 4) can return, in 1/240 month: its deviate is
\* cos(2 pi x) * sqrt(-2 ln(1 - y)) with y a multiple of 2^-53 below 1, so at
\* most sqrt(106 ln 2) = 8.5716 standard deviations, 34.29 months
gauss_0_4_reach == 8229

\* outcomes of random.gauss(0, 4), in 1/240 month: whole months and both ends
SurvivalNoiseSimple ==
    {n \in SurvivalNoise : Abs(n) <= gauss_0_4_reach}
        \cup {-gauss_0_4_reach, gauss_0_4_reach}

ResistNoise == {5 * k : k \in (-MaxResistNoiseSteps)..MaxResistNoiseSteps}

NextGen ==
    /\ call.op = "none"
    /\ \/ \E x \in AgeDraws : GenAgeFull(x)
       \/ \E x \in AgeDraws : GenAgeSimple(x)
       \/ \E subtype \in Subtypes, age \in 35..85, stage \in Stages, brca \in BrcaStatuses,
             g \in GeneSums, c \in CnvSums, noise \in SurvivalNoise :
               GenSurvivalFull(subtype, age, stage, brca, g, c, noise)
       \/ \E subtype \in Subtypes, age \in 35..85, stage \in Stages, brca \in BrcaStatuses,
             noise \in SurvivalNoiseSimple :
               GenSurvivalSimple(subtype, age, stage, brca, noise)
       \/ \E subtype \in Subtypes, brca \in BrcaStatuses, t \in TanhValues,
             noise \in ResistNoise, u \in UniformDraws :
               GenResistanceFull(subtype, brca, t, noise, u)
       \/ \E subtype \in Subtypes, brca \in BrcaStatuses,
             noise \in ResistNoise, u \in UniformDraws :
               GenResistanceSimple(subtype, brca, noise, u)
       \/ \E script \in {"full", "simple"}, u1, u2, u3 \in CategoricalDraws :
               GenCategorical(script, u1, u2, u3)

SpecGen == InitHarness /\ [][NextGen]_vars

(***************************************************************************)
(* generate_demo_data(n_patients) called on its own, for the patient       *)
(* counts and the generator tapes below.                                   *)
(***************************************************************************)
\* largest patient count handed to generate_demo_data
MaxFeatureCohort == 5

\* the tapes are 1..MaxFeatureTape
MaxFeatureTape == 30

GenFeatures(n) ==
    /\ call.op = "none"
    /\ \E g \in {generate_demo_data(rng, n)} :
          call' = [op |-> "generate_demo_data", n |-> n, patients |-> g.patients,
                   features |-> g.features]
    /\ UNCHANGED mainVars

NextFeatures ==
    /\ call.op = "none"
    /\ \E n \in 1..MaxFeatureCohort : GenFeatures(n)

InitFeatures ==
    /\ call = [op |-> "none"]
    /\ variant = "full"
    /\ tape \in 1..MaxFeatureTape
    /\ hashSalt = 0
    /\ rng \in {Seed(e) : e \in EntropySeeds}
    /\ cache = <<>>
    /\ session_state = <<>>
    /\ widget = <<>>
    /\ page = <<>>
    /\ audit = <<>>
    /\ thread = <<>>

SpecFeatures == InitFeatures /\ [][NextFeatures]_vars

(***************************************************************************)
(* train_models(features, targets) called on its own, on the cohorts that  *)
(* generate_demo_data returns for the patient counts and tapes below.      *)
(***************************************************************************)
\* largest patient count of a cohort handed to train_models
MaxTrainCohort == 7

\* the tapes are 1..MaxTrainTape
MaxTrainTape == 30

\* targets = patients[['survival_months', 'platinum_resistant']]
targets_of(patients) ==
    [i \in 1..Len(patients) |->
        [survival_months |-> patients[i].survival_months,
         platinum_resistant |-> patients[i].platinum_resistant]]

TrainModels(n) ==
    /\ call.op = "none"
    /\ \E g \in {generate_demo_data(rng, n)} :
       \E targets \in {targets_of(g.patients)} :
       \E raised \in {train_raises(targets)} :
       \E out \in {IF raised THEN <<>> ELSE train_models(g.features, targets)} :
          call' = [op |-> "train_models", n |-> n, features |-> g.features,
                   targets |-> targets, raised |-> raised, out |-> out,
                   train |-> train_rows(targets), test |-> test_rows(targets)]
    /\ UNCHANGED mainVars

NextTrain ==
    /\ call.op = "none"
    /\ \E n \in 4..MaxTrainCohort : TrainModels(n)

InitTrain ==
    /\ call = [op |-> "none"]
    /\ variant = "full"
    /\ tape \in 1..MaxTrainTape
    /\ hashSalt = 0
    /\ rng \in {Seed(e) : e \in EntropySeeds}
    /\ cache = <<>>
    /\ session_state = <<>>
    /\ widget = <<>>
    /\ page = <<>>
    /\ audit = <<>>
    /\ thread = <<>>

SpecTrain == InitTrain /\ [][NextTrain]_vars

(***************************************************************************)
(* Claims about the pure functions.                                        *)
(***************************************************************************)
IsReport == call.op \in {"report_full", "report_simple"}

\* C1: for every predicted survival s the Reporter (either script) assigns
\* HIGH RISK exactly when s < 15, MEDIUM RISK exactly when 15 <= s < 30 and
\* LOW RISK exactly when s >= 30: one category, decided by s alone.
RiskTiers ==
    IsReport =>
        /\ call.risk_category \in {"HIGH RISK", "MEDIUM RISK", "LOW RISK"}
        /\ (call.risk_category = "HIGH RISK") <=> (call.pred_survival < 150)
        /\ (call.risk_category = "MEDIUM RISK") <=>
                (150 <= call.pred_survival /\ call.pred_survival < 300)
        /\ (call.risk_category = "LOW RISK") <=> (call.pred_survival >= 300)

RiskTiersWitness ==
    /\ call.op = "report_simple"
    /\ call.pred_survival = 150
    /\ call.risk_category = "MEDIUM RISK"
    /\ call.pred_resistance_prob = 95

\* C2 as stated: standard exactly when p < 0.4, monitoring exactly when
\* 0.4 <= p < 0.7, alternative exactly when p >= 0.7 (the boundaries fall in
\* the higher tier).
TreatmentTiersInclusive ==
    IsReport =>
        /\ (call.treatment_rec = "standard") <=> (call.pred_resistance_prob < 40)
        /\ (call.treatment_rec = "monitoring") <=>
                (40 <= call.pred_resistance_prob /\ call.pred_resistance_prob < 70)
        /\ (call.treatment_rec = "alternative") <=> (call.pred_resistance_prob >= 70)

\* C2 amended: standard exactly when p <= 0.4, monitoring exactly when
\* 0.4 < p <= 0.7, alternative exactly when p > 0.7 (the boundaries fall in
\* the lower tier); one tier, decided by p alone.
TreatmentTiers ==
    IsReport =>
        /\ call.treatment_rec \in {"standard", "monitoring", "alternative"}
        /\ (call.treatment_rec = "standard") <=> (call.pred_resistance_prob <= 40)
        /\ (call.treatment_rec = "monitoring") <=>
                (40 < call.pred_resistance_prob /\ call.pred_resistance_prob <= 70)
        /\ (call.treatment_rec = "alternative") <=> (call.pred_resistance_prob > 70)

TreatmentTiersWitness ==
    /\ call.op = "report_full"
    /\ call.pred_resistance_prob = 70
    /\ call.treatment_rec = "monitoring"
    /\ call.risk_category = "LOW RISK"

\* C3: for a patient count N the generator yields exactly N identifiers,
\* pairwise distinct, the i-th being "OV" followed by i zero-padded to three
\* digits (OV001..OV200 for the 200 patients of both scripts).
IdsWellFormed ==
    call.op \in {"ids_full", "ids_simple"} =>
        /\ Len(call.ids) = call.n
        /\ call.op = "ids_simple" => Len(call.ids) = 200
        /\ \A i \in 1..Len(call.ids) :
              i < 1000 =>
                call.ids[i] = <<"O", "V", DigitChar[(i \div 100) + 1],
                                DigitChar[((i \div 10) % 10) + 1],
                                DigitChar[(i % 10) + 1]>>
        /\ \A i, j \in 1..Len(call.ids) : i # j => call.ids[i] # call.ids[j]

IdsWellFormedWitness ==
    /\ call.op = "ids_full"
    /\ call.n = 200
    /\ call.ids[1] = <<"O", "V", "0", "0", "1">>
    /\ call.ids[200] = <<"O", "V", "2", "0", "0">>

AgeInRange ==
    call.op \in {"age_full", "age_simple"} => call.age \in 35..85

AgeInRangeWitness ==
    /\ call.op = "age_full"
    /\ call.x = 859
    /\ call.age = 85

\* C7: the generator's ground-truth resistance probability lies in
\* [0.05, 0.95] in both scripts, before and after the rounding to three
\* decimals, and the flag drawn from it is 0 or 1.
ResistanceInRange ==
    call.op \in {"resistance_full", "resistance_simple"} =>
        /\ 500 <= call.resistance_prob /\ call.resistance_prob <= 9500
        /\ 50 <= call.resistance_prob_true /\ call.resistance_prob_true <= 950
        /\ call.platinum_resistant \in {0, 1}

ResistanceInRangeWitness ==
    /\ call.op = "resistance_full"
    /\ resist_base(call.subtype) + brca_resist(call.brca_status)
          + call.gene_resist_effect + call.noise > 9500
    /\ call.resistance_prob_true = 950
    /\ call.platinum_resistant = 0

\* C13: in both scripts every patient's stage, subtype and BRCA status come
\* from their fixed sets, each field's weights add up to exactly 1, and the
\* weights are 0.75/0.25, 0.6/0.25/0.15 and 0.8/0.2 in both scripts.
CategoricalFields ==
    call.op = "categorical" =>
        /\ call.stage \in {"IIIC", "IV"}
        /\ call.subtype \in {"HGSOC", "CCOC", "Other"}
        /\ call.brca_status \in {"Wild-type", "BRCA1/2_mut"}
        /\ \A k \in 1..3 : SeqSum(call.p[k]) = 10000
        /\ call.p = <<<<7500, 2500>>, <<6000, 2500, 1500>>, <<8000, 2000>>>>

CategoricalFieldsWitness ==
    /\ call.op = "categorical"
    /\ call.script = "full"
    /\ call.u = <<7500, 8500, 8000>>
    /\ call.stage = "IV"
    /\ call.subtype = "Other"
    /\ call.brca_status = "BRCA1/2_mut"

\* the values of a field that occur in the cohort of the last call
Present(field) == {call.patients[i][field] : i \in 1..Len(call.patients)}

\* every stage, subtype and BRCA status occurs in the cohort of the last call
AllCategoriesPresent ==
    /\ Present("stage") = {"IIIC", "IV"}
    /\ Present("subtype") = {"HGSOC", "CCOC", "Other"}
    /\ Present("brca_status") = {"Wild-type", "BRCA1/2_mut"}

\* C14 as stated: for every cohort the generator can produce the feature
\* table has one row per patient and 6 clinical + 20 gene + 11 copy-number
\* columns, 37 in all.
FeatureTableShapeAlways ==
    call.op = "generate_demo_data" =>
        /\ Len(call.features.rows) = Len(call.patients)
        /\ Len(call.features.columns) = 37
        /\ \A i \in 1..Len(call.patients) : Len(call.features.rows[i]) = 37

\* C14 amended: the feature table has one row per patient, each as long as
\* the column list; the columns are age, one indicator for every stage,
\* subtype and BRCA status that occurs in the cohort except the first of each
\* field in sorted order, log_ca125, 20 gene and 11 copy-number columns: 37
\* in all exactly when every stage, subtype and BRCA status occurs.
FeatureTableShape ==
    call.op = "generate_demo_data" =>
        /\ Len(call.patients) = call.n
        /\ Len(call.features.rows) = call.n
        /\ \A i \in 1..call.n :
              Len(call.features.rows[i]) = Len(call.features.columns)
        /\ Len(call.features.columns) =
              2 + (Cardinality(Present("stage")) - 1)
                + (Cardinality(Present("subtype")) - 1)
                + (Cardinality(Present("brca_status")) - 1) + 20 + 11
        /\ SubSeq(call.features.columns, Len(call.features.columns) - 30,
                  Len(call.features.columns)) = GeneNames20 \o CnvNames
        /\ (Len(call.features.columns) = 37) <=> AllCategoriesPresent

FeatureTableShapeWitness ==
    /\ call.op = "generate_demo_data"
    /\ AllCategoriesPresent
    /\ call.features.columns =
          <<"age", "stage_IV", "subtype_HGSOC", "subtype_Other",
            "brca_status_Wild-type", "log_ca125">> \o GeneNames20 \o CnvNames

\* train_models returned in the last call
Trained == call.op = "train_models" /\ ~call.raised

\* C15 as stated: whenever train_models returns, survival_mae >= 0,
\* survival_cor is a number in [-1, 1] and resistance_auc is in [0, 1], also
\* when the predictions or the labels of the test partition are constant.
MetricsInRange ==
    Trained =>
        /\ call.out.metrics.survival_mae >= 0
        /\ ~call.out.metrics.survival_cor.nan
        /\ call.out.metrics.survival_cor.value \in -100..100
        /\ call.out.metrics.resistance_auc \in 0..100

\* the rows of the last call's cohort whose platinum_resistant label is y
Labelled(y) == {i \in 1..call.n : call.targets[i].platinum_resistant = y}

\* C16: train_models splits the cohort once: the train and the test
\* partition are disjoint and together hold every patient; the test
\* partition holds 30% of the patients, rounded up (60 of 200); each label's
\* share of the train partition is its share of the cohort, to within one
\* patient; both estimators are fitted on the train partition and the
\* metrics and the returned test data are those of the test partition.
TrainTestSplit ==
    Trained =>
        /\ call.train \cap call.test = {}
        /\ call.train \cup call.test = 1..call.n
        /\ 10 * Cardinality(call.test) >= 3 * call.n
        /\ 10 * (Cardinality(call.test) - 1) < 3 * call.n
        /\ n_test(200) = 60
        /\ \A y \in {0, 1} :
              Abs(call.n * Cardinality(call.train \cap Labelled(y))
                    - Cardinality(call.train) * Cardinality(Labelled(y))) < call.n
        /\ call.out.survival_model.fitted_on = call.train
        /\ call.out.resistance_model.fitted_on = call.train
        /\ call.out.test_data.X_test = call.test
        /\ DOMAIN call.out.test_data.y_surv_test = call.test
        /\ DOMAIN call.out.test_data.y_resist_test = call.test
        /\ call.out.metrics.survival_mae =
              SetSum([i \in 1..call.n |->
                        Abs(call.targets[i].survival_months
                              - predict(call.out.survival_model, call.features.rows[i]))],
                     call.test) \div Cardinality(call.test)

TrainTestSplitWitness ==
    /\ Trained
    /\ call.n = 7
    /\ Cardinality(call.test) = 3
    /\ Cardinality(call.train \cap Labelled(1)) >= 2
    /\ call.out.metrics.survival_mae > 0

(***************************************************************************)
(* Claims about the server process.                                        *)
(***************************************************************************)
\* C4: cohort generation is deterministic and idempotent: every call of the
\* generator that runs returns the same patient table (and feature table),
\* whatever ran before it - other generator calls, reruns, report clicks
\* that reseed or consume the random stream, process restarts.
GeneratorDeterministic == Cardinality(audit.generated) <= 1

GeneratorDeterministicWitness ==
    /\ audit.genCalls = 2
    /\ audit.genAfterReport
    /\ variant = "simple"
    /\ rng = Advance(Seed(42), 9 * CohortSize)

\* the session in slot s is the same one before and after the step
SameSession(s) == page[s].status # "none" /\ page'[s].status # "none"

\* the keys a completed first run leaves in st.session_state
CompleteKeys ==
    IF variant = "full"
        THEN {"patients", "features", "targets", "data_generated", "survival_model",
              "resistance_model", "metrics", "test_data", "models_trained"}
        ELSE {"patients", "demo_initialized"}

\* C8: within one session the cohort and the models are created exactly once,
\* by the first script run that completes, and every later rerun, selection
\* or click leaves each stored value as it is: nothing is regenerated,
\* retrained or mutated.
CreatedOnce ==
    /\ [][\A s \in Sessions :
            SameSession(s) =>
                \A k \in DOMAIN session_state[s] :
                    /\ k \in DOMAIN session_state'[s]
                    /\ session_state'[s][k] = session_state[s][k]]_vars
    /\ [](\A s \in Sessions :
            /\ audit.stores[s].data <= 1
            /\ audit.stores[s].models <= 1
            /\ page[s].status = "ok" =>
                /\ DOMAIN session_state[s] = CompleteKeys
                /\ audit.stores[s].data = 1
                /\ variant = "full" => audit.stores[s].models = 1)

CreatedOnceWitness ==
    \E s \in Sessions :
        /\ variant = "full"
        /\ "models_trained" \in DOMAIN session_state[s]
        /\ widget[s] > 1
        /\ page[s].report.shown

\* C9 as stated: a click on the report button leaves every piece of state
\* that outlives the click unchanged, in both scripts: the session state,
\* the memo, the widget state and the process-global generator.
ReportIsStateless ==
    [][(\E s \in Sessions : ClickReport(s)) =>
            UNCHANGED <<session_state, cache, widget, hashSalt, rng>>]_vars

\* C10 as stated: every report for the same patient identifier shows the
\* same predictions, risk category and recommendation, whatever was reported
\* before, within a session and across sessions.
ReportsDeterministic ==
    \A s \in Sessions :
        (page[s].report.shown /\ audit.first # <<>>
            /\ audit.first[1].id = page[s].report.id)
        => page[s].report = audit.first[1]

\* the keys of the cohort and the keys of the trained models
CohortKeys == {"patients", "features", "targets", "data_generated"}

ModelKeys == {"survival_model", "resistance_model", "metrics", "test_data", "models_trained"}

\* C12: when training raises during a script run, the session state still
\* holds the complete cohort, as generated, and none of the model keys; in no
\* state is a proper part of the model keys stored.
TrainingFailureClean ==
    \A s \in Sessions :
        /\ DOMAIN session_state[s] \cap ModelKeys \in {{}, ModelKeys}
        /\ page[s].status = "error" =>
            /\ DOMAIN session_state[s] = CohortKeys
            /\ session_state[s].patients = cache.data[1].patients
            /\ session_state[s].features = cache.data[1].features
            /\ cache.models = <<>>

TrainingFailureCleanWitness ==
    \E s \in Sessions :
        /\ page[s].status = "error"
        /\ audit.stores[s].data = 1
        /\ train_raises(session_state[s].targets)

\* C17: when the report button is pressed, the selected identifier is an
\* identifier of the session's cohort and matches exactly one patient, the
\* one at the selected position of the dropdown, so index[0] and next(...)
\* find a row; the report shown is about that identifier and that patient.
LookupTotal ==
    \A s \in Sessions :
        page[s].report.shown =>
            /\ page[s].report.id
                  \in {session_state[s].patients[i].id :
                         i \in 1..Len(session_state[s].patients)}
            /\ matching_rows(session_state[s].patients, page[s].report.id) = {widget[s]}
            /\ page[s].report.patient = session_state[s].patients[widget[s]]
            /\ page[s].report.patient.id = page[s].report.id

LookupTotalWitness ==
    \E s, t \in Sessions :
        /\ s # t
        /\ page[s].report.shown
        /\ page[t].report.shown
        /\ widget[s] = CohortSize
        /\ widget[t] = 1

\* C18: in the full script a session that holds trained models holds the
\* cohort; the stored models, metrics and test data are those train_models
\* returns for the features and targets stored in the same session; and a
\* run reaches the code that reads the models (the dashboard, the report)
\* only with the cohort and the models stored.
ModelsFollowCohort ==
    \A s \in Sessions :
        /\ "models_trained" \in DOMAIN session_state[s] =>
              /\ CohortKeys \cup ModelKeys \subseteq DOMAIN session_state[s]
              /\ ~train_raises(session_state[s].targets)
              /\ [k \in ModelKeys \ {"models_trained"} |-> session_state[s][k]]
                    = train_models(session_state[s].features, session_state[s].targets)
              /\ session_state[s].survival_model.fitted_on
                    \subseteq 1..Len(session_state[s].patients)
        /\ (variant = "full" /\ page[s].status = "ok") =>
              CohortKeys \cup ModelKeys \subseteq DOMAIN session_state[s]
        /\ (variant = "full" /\ page[s].report.shown) =>
              page[s].report.pred_survival =
                  predict(session_state[s].survival_model,
                          session_state[s].features.rows[widget[s]])

ModelsFollowCohortWitness ==
    \E s, t \in Sessions :
        /\ variant = "full"
        /\ s # t
        /\ page[s].report.shown
        /\ widget[s] = CohortSize
        /\ "models_trained" \in DOMAIN session_state[s]
        /\ "models_trained" \in DOMAIN session_state[t]
        /\ cache.models # <<>>

(***************************************************************************)
(* Claims about concurrent sessions.                                       *)
(***************************************************************************)
\* C11 as stated: sessions are isolated: under any interleaving of the steps
\* of the sessions' script threads, every session that holds a cohort holds
\* the cohort every other session holds.
SessionsIsolated ==
    \A s, t \in Sessions :
        ("patients" \in DOMAIN session_state[s] /\ "patients" \in DOMAIN session_state[t])
        => session_state[s].patients = session_state[t].patients

====
